---------------------------- MODULE Spec2Model ----------------------------
(***************************************************************************)
(* Connect 4 (src/main.rs): the Game struct, Game::play_move with its win  *)
(* and draw detection Game::calculate_winner, and the input step of main.  *)
(*                                                                         *)
(* The board keeps the source's indexing: board[row][col], row 0 the top   *)
(* row and row BOARD_HEIGHT-1 the bottom row, cells 0 (empty), 1 or 2.     *)
(***************************************************************************)
EXTENDS Integers, Sequences, FiniteSets

\* ------------------------------------------------------------ constants

BOARD_WIDTH == 7

BOARD_HEIGHT == 6

\* enum Player, #[repr(u8)]
One == 1

Two == 2

None == 0

\* ------------------------------------------------------------ bounds

\* Largest zero-based column a caller passes to play_move (columns
\* BOARD_WIDTH..MaxColumn are out of range).
MaxColumn == 7

\* The integers typed at main's prompt are -MaxNegInput .. MaxInput.
MaxNegInput == 1

MaxInput == 8

\* The callers play any column during the first OpeningPlies tokens and
\* during the last EndgamePlies tokens of a game, and on a finished game;
\* in between they follow Script.
OpeningPlies == 2

\* The opening games of SpecOpening.
OpeningDepth == 7

MaxOpeningColumn == 3

EndgamePlies == 7

\* A drawn game: the zero-based column of each of the 42 tokens.  Columns 0
\* to 4 are filled first, columns 5 and 6 last.
Script ==
    <<0, 2, 2, 0, 0, 2, 2, 0, 0, 2, 2, 0,
      1, 3, 3, 1, 1, 3, 3, 1, 1, 3, 3, 1,
      4, 4, 4, 4, 4, 4,
      5, 6, 6, 5, 5, 6, 6, 5, 5, 6, 6, 5>>

\* ------------------------------------------------------------ state

VARIABLES
    board,           \* Game.board
    current_move,    \* Game.current_move
    current_player,  \* Game.current_player
    is_finished,     \* Game.is_finished
    winner,          \* Game.winner
    result           \* what the last operation reported: "Ok", the error,
                     \* or what main did at the prompt after a game

game == <<board, current_move, current_player, is_finished, winner>>

vars == <<board, current_move, current_player, is_finished, winner, result>>

Rows == 0 .. (BOARD_HEIGHT - 1)

Cols == 0 .. (BOARD_WIDTH - 1)

\* ------------------------------------------------------------ Player

\* from_int with the arms for 1 and 2 exchanged
from_int_swapped(int) ==
    IF int = 1 THEN Two ELSE IF int = 2 THEN One ELSE None

from_int(int) ==
    IF int = 1 THEN One ELSE IF int = 2 THEN Two ELSE None

\* ------------------------------------------------------------ calculate_winner

\* directions without its last entry: the rising diagonal is never tried
directions_no_rising == << <<0, 1>>, <<1, 0>>, <<1, 1>> >>

\* (row_step, col_step), in the order the scan tries them
directions == << <<0, 1>>, <<1, 0>>, <<1, 1>>, <<-1, 1>> >>

\* the while condition of the walk
InBounds(r, c) ==
    r >= 0 /\ r < BOARD_HEIGHT /\ c >= 0 /\ c < BOARD_WIDTH

\* The while loop from position (r, c) with consecutive_count = count:
\* TRUE when the count reaches 4 before a mismatch or the board's edge.
RECURSIVE Walk(_, _, _, _, _, _, _)
Walk(b, cell, r, c, row_step, col_step, count) ==
    IF InBounds(r, c)
    THEN IF b[r][c] = cell
         THEN IF count + 1 = 4
              THEN TRUE
              ELSE Walk(b, cell, r + row_step, c + col_step,
                        row_step, col_step, count + 1)
         ELSE FALSE
    ELSE FALSE

\* Position k of the scan: row, col and direction, rows outermost and
\* directions innermost.
ScanRow(k) == k \div (BOARD_WIDTH * Len(directions))

ScanCol(k) == (k \div Len(directions)) % BOARD_WIDTH

ScanDir(k) == directions[(k % Len(directions)) + 1]

\* ScanHit without the test `cell != 0`: a walk may start on an empty cell
ScanHit_any_cell(b, k) ==
    LET row == ScanRow(k)
        col == ScanCol(k)
        d == ScanDir(k)
    IN  Walk(b, b[row][col], row + d[1], col + d[2], d[1], d[2], 1)

ScanHit(b, k) ==
    LET row == ScanRow(k)
        col == ScanCol(k)
        d == ScanDir(k)
        cell == b[row][col]
    IN  /\ cell # 0
        /\ Walk(b, cell, row + d[1], col + d[2], d[1], d[2], 1)

\* ScanSkipped with <= for <
ScanSkipped_late(m) == m <= BOARD_WIDTH

\* the early return while fewer than BOARD_WIDTH tokens are placed
ScanSkipped(m) == m < BOARD_WIDTH

\* BoardFull with > for >=
BoardFull_strict(m) == m > BOARD_HEIGHT * BOARD_WIDTH

\* the draw test after a scan that found nothing
BoardFull(m) == m >= BOARD_HEIGHT * BOARD_WIDTH

\* calculate_winner with the draw test in front of the scan
calculate_winner_draw_first(b, m, fin) ==
    IF ScanSkipped(m)
    THEN [ret |-> None, is_finished |-> fin]
    ELSE IF BoardFull(m)
    THEN [ret |-> None, is_finished |-> TRUE]
    ELSE LET last == BOARD_HEIGHT * BOARD_WIDTH * Len(directions) - 1
             hits == {k \in 0 .. last : ScanHit(b, k)}
         IN  IF hits # {}
             THEN LET first == CHOOSE k \in hits : \A j \in hits : k <= j
                  IN  [ret |-> from_int(b[ScanRow(first)][ScanCol(first)]),
                       is_finished |-> TRUE]
             ELSE [ret |-> None, is_finished |-> fin]

\* calculate_winner on board b with current_move m and is_finished fin:
\* the Player it returns and the is_finished it leaves.
calculate_winner(b, m, fin) ==
    IF ScanSkipped(m)
    THEN [ret |-> None, is_finished |-> fin]
    ELSE LET last == BOARD_HEIGHT * BOARD_WIDTH * Len(directions) - 1
             hits == {k \in 0 .. last : ScanHit(b, k)}
         IN  IF hits # {}
             THEN LET first == CHOOSE k \in hits : \A j \in hits : k <= j
                  IN  [ret |-> from_int(b[ScanRow(first)][ScanCol(first)]),
                       is_finished |-> TRUE]
             ELSE [ret |-> None,
                   is_finished |-> IF BoardFull(m) THEN TRUE ELSE fin]

\* ------------------------------------------------------------ play_move

\* OutOfRange with > for >=
OutOfRange_strict(column) == column > BOARD_WIDTH

\* the range check on the column
OutOfRange(column) == column >= BOARD_WIDTH

\* FindRow without .rev(): the first empty row from the top
FindRow_from_top(b, column) ==
    LET empty == {row \in Rows : b[row][column] = 0}
    IN  IF empty = {} THEN -1
        ELSE CHOOSE row \in empty : \A r \in empty : row <= r

\* FindRow over (1..BOARD_HEIGHT): the top row is never looked at
FindRow_below_top(b, column) ==
    LET empty == {row \in Rows \ {0} : b[row][column] = 0}
    IN  IF empty = {} THEN -1
        ELSE CHOOSE row \in empty : \A r \in empty : r <= row

\* (0..BOARD_HEIGHT).rev().find(|row| board[row][column] == 0): the empty
\* row found, or -1 for Option::None.
FindRow(b, column) ==
    LET empty == {row \in Rows : b[row][column] = 0}
    IN  IF empty = {} THEN -1
        ELSE CHOOSE row \in empty : \A r \in empty : r <= row

\* Outcome without the is_finished check
Outcome_unguarded(fin, b, column) ==
    IF OutOfRange(column) THEN "InvalidColumn"
    ELSE IF column \notin Cols THEN "Panic"
    ELSE IF FindRow(b, column) = -1 THEN "ColumnFull"
    ELSE "Ok"

\* Outcome with the range check in front of the is_finished check
Outcome_range_first(fin, b, column) ==
    IF OutOfRange(column) THEN "InvalidColumn"
    ELSE IF fin THEN "GameFinished"
    ELSE IF column \notin Cols THEN "Panic"
    ELSE IF FindRow(b, column) = -1 THEN "ColumnFull"
    ELSE "Ok"

\* What play_move returns: the three checks in their order.  Indexing the
\* board with a column outside it panics (Rust checks array bounds).
Outcome(fin, b, column) ==
    IF fin THEN "GameFinished"
    ELSE IF OutOfRange(column) THEN "InvalidColumn"
    ELSE IF column \notin Cols THEN "Panic"
    ELSE IF FindRow(b, column) = -1 THEN "ColumnFull"
    ELSE "Ok"

\* NextPlayer giving back the player it was given
NextPlayer_keep(p) == p

\* NextPlayer with Player::None in its second arm
NextPlayer_none(p) == IF p = One THEN Two ELSE None

\* NextPlayer with both arms giving Player::One
NextPlayer_one(p) == One

\* the match that passes the turn
NextPlayer(p) == IF p = One THEN Two ELSE One

\* TurnAfter passing the turn whatever calculate_winner returned
TurnAfter_always(calculated_winner, p) == NextPlayer(p)

\* current_player after calculate_winner returned calculated_winner
TurnAfter(calculated_winner, p) ==
    IF calculated_winner # None THEN p ELSE NextPlayer(p)

\* winner after calculate_winner returned calculated_winner
WinnerAfter(calculated_winner, w) ==
    IF calculated_winner # None THEN calculated_winner ELSE w

\* Settle passing the turn only while the game goes on
Settle_frozen(b, m, fin, w, p) ==
    LET cw == calculate_winner(b, m, fin)
    IN  [is_finished |-> cw.is_finished,
         winner |-> WinnerAfter(cw.ret, w),
         current_player |-> IF cw.is_finished THEN p ELSE NextPlayer(p)]

\* The end of play_move, from the call of calculate_winner on: the
\* is_finished, winner and current_player it leaves, on board b with
\* current_move m, is_finished fin, winner w and current_player p.
Settle(b, m, fin, w, p) ==
    LET cw == calculate_winner(b, m, fin)
    IN  [is_finished |-> cw.is_finished,
         winner |-> WinnerAfter(cw.ret, w),
         current_player |-> TurnAfter(cw.ret, p)]

\* Place writing the token of the player who is not to move
Place_other(b, row, column, p) == [b EXCEPT ![row][column] = NextPlayer(p)]

\* self.board[row][column] = self.current_player as u8
Place(b, row, column, p) == [b EXCEPT ![row][column] = p]

\* play_move with `self.current_move += 1` moved in front of the search for
\* a row: a move refused with ColumnFull is counted too
play_move_count_first(column) ==
    LET out == Outcome(is_finished, board, column)
    IN  /\ result' = out
        /\ IF out = "Ok"
           THEN LET row == FindRow(board, column)
                    b == Place(board, row, column, current_player)
                    m == current_move + 1
                    end == Settle(b, m, is_finished, winner, current_player)
                IN  /\ board' = b
                    /\ current_move' = m
                    /\ is_finished' = end.is_finished
                    /\ winner' = end.winner
                    /\ current_player' = end.current_player
           ELSE IF out = "ColumnFull"
                THEN /\ current_move' = current_move + 1
                     /\ UNCHANGED <<board, current_player, is_finished, winner>>
                ELSE UNCHANGED game

play_move(column) ==
    LET out == Outcome(is_finished, board, column)
    IN  /\ result' = out
        /\ IF out = "Ok"
           THEN LET row == FindRow(board, column)
                    b == Place(board, row, column, current_player)
                    m == current_move + 1
                    end == Settle(b, m, is_finished, winner, current_player)
                IN  /\ board' = b
                    /\ current_move' = m
                    /\ is_finished' = end.is_finished
                    /\ winner' = end.winner
                    /\ current_player' = end.current_player
           ELSE UNCHANGED game

\* ------------------------------------------------------------ main

\* user_move.trim().parse::<usize>() of the decimal text of num
ParseOk(num) == num >= 0

\* the 1-based range check of main
InputRejected(num) == num < 1 \/ num > 7

\* One iteration of `while !game.is_finished` on the input line num: a
\* parse error or a rejected number is displayed and the game is left
\* alone, otherwise play_move(num - 1) is called and its error displayed.
MainTurn(num) ==
    /\ ~is_finished
    /\ IF ~ParseOk(num)
       THEN result' = "ParseError" /\ UNCHANGED game
       ELSE IF InputRejected(num)
            THEN result' = "InvalidColumn" /\ UNCHANGED game
            ELSE play_move(num - 1)

\* Game::default()
default ==
    [board |-> [row \in Rows |-> [col \in Cols |-> 0]],
     current_move |-> 0,
     current_player |-> One,
     is_finished |-> FALSE,
     winner |-> None]

\* the lines typed at the prompt that follows a finished game, trimmed
Keys == {"R", "r", "Q", "q", "x"}

\* AfterGame without the assignment `game = Game::default()`
AfterGame_no_reset(input) ==
    /\ is_finished
    /\ UNCHANGED game
    /\ result' = IF input \in {"R", "r"} THEN "Restarted"
                 ELSE IF input \in {"Q", "q"} THEN "Quit"
                 ELSE "invalid input"

\* The prompt main reaches when `while !game.is_finished` ends: R replaces
\* the game by a new one and displays it, Q leaves the loop, any other line
\* is reported as invalid input.
AfterGame(input) ==
    /\ is_finished
    /\ IF input \in {"R", "r"}
       THEN /\ board' = default.board
            /\ current_move' = default.current_move
            /\ current_player' = default.current_player
            /\ is_finished' = default.is_finished
            /\ winner' = default.winner
            /\ result' = "Restarted"
       ELSE IF input \in {"Q", "q"}
            THEN result' = "Quit" /\ UNCHANGED game
            ELSE result' = "invalid input" /\ UNCHANGED game

\* main has not left its loop
Running == result # "Quit"

\* ------------------------------------------------------------ callers

FreePlay ==
    \/ is_finished
    \/ current_move < OpeningPlies
    \/ current_move >= BOARD_HEIGHT * BOARD_WIDTH - EndgamePlies

\* the columns a caller passes to play_move in the current state
Columns == IF FreePlay THEN 0 .. MaxColumn ELSE {Script[current_move + 1]}

\* the numbers typed at main's prompt in the current state
Inputs == IF FreePlay THEN (0 - MaxNegInput) .. MaxInput ELSE {Script[current_move + 1] + 1}

Init ==
    /\ board = [row \in Rows |-> [col \in Cols |-> 0]]
    /\ current_move = 0
    /\ current_player = One
    /\ is_finished = FALSE
    /\ winner = None
    /\ result = "None"

CallPlayMove == Running /\ \E column \in Columns : play_move(column)

Prompt == \E num \in Inputs : MainTurn(num)

PostGame == Running /\ \E input \in Keys : AfterGame(input)

Next == CallPlayMove \/ Prompt \/ PostGame

Spec == Init /\ [][Next]_vars

\* The first OpeningDepth tokens of a game, every one of them played in any
\* of the columns 0 .. MaxOpeningColumn.
OpeningMove ==
    \E column \in 0 .. MaxOpeningColumn :
        current_move < OpeningDepth /\ play_move(column)

SpecOpening == Init /\ [][OpeningMove]_vars

\* ------------------------------------------------------------ properties

Players == {One, Two}

Other(p) == IF p = One THEN Two ELSE One

\* the four ways a line runs: along a row, down a column, along the
\* falling diagonal and along the rising diagonal
LineSteps == { <<0, 1>>, <<1, 0>>, <<1, 1>>, <<1, -1>> }

\* p owns the four cells from (r, c) in steps of d
OwnsLine(b, p, r, c, d) ==
    \A k \in 0 .. 3 :
        /\ r + k * d[1] \in Rows
        /\ c + k * d[2] \in Cols
        /\ b[r + k * d[1]][c + k * d[2]] = p

\* p has four contiguous cells along a line running as d does
HasLineAlong(b, p, d) ==
    \E r \in Rows, c \in Cols : OwnsLine(b, p, r, c, d)

\* p has four contiguous cells in a row, a column or a diagonal
HasLine(b, p) == \E d \in LineSteps : HasLineAlong(b, p, d)

NoLine(b) == \A p \in Players : ~HasLine(b, p)

\* no cell of the board is empty
Full(b) == \A r \in Rows, c \in Cols : b[r][c] # 0

\* the column has an empty cell
HasRoom(b, c) == \E r \in Rows : b[r][c] = 0

\* C1: win detection is complete: in no reachable state does a player own
\* four contiguous cells along a row, a column or a diagonal while
\* is_finished is false or winner is not that player.
C1_WinDetected ==
    \A p \in Players : HasLine(board, p) => is_finished /\ winner = p

\* a move has completed a rising diagonal and the game records the win
C1_Witness ==
    \E p \in Players :
        /\ HasLineAlong(board, p, <<1, -1>>)
        /\ is_finished
        /\ winner = p
        /\ result = "Ok"

\* C2: win detection is sound: winner is a real player only if that player
\* owns four contiguous cells, and is_finished is set only if some player
\* owns such a line or the board is full.
C2_WinSound ==
    /\ winner \in Players => HasLine(board, winner)
    /\ is_finished => (\E p \in Players : HasLine(board, p)) \/ Full(board)

\* player Two has won with four in a line on a board that still has room
C2_Witness ==
    /\ is_finished
    /\ winner = Two
    /\ HasLine(board, Two)
    /\ ~Full(board)

\* C3: draw detection: a full board without a line is finished with winner
\* None, and a finished game with winner None has no empty cell.
C3_Draw ==
    /\ Full(board) /\ NoLine(board) => is_finished /\ winner = None
    /\ is_finished /\ winner = None => Full(board)

\* the 42nd token has filled the board without a line
C3_Witness ==
    /\ Full(board)
    /\ NoLine(board)
    /\ current_move = BOARD_HEIGHT * BOARD_WIDTH
    /\ is_finished
    /\ winner = None
    /\ result = "Ok"

\* C4: terminal states are absorbing: every play_move call on a finished
\* game, whatever the column, returns GameFinished and changes no field of
\* the game.
C4_Absorbing ==
    [][\A column \in 0 .. MaxColumn :
          is_finished /\ play_move(column)
              => result' = "GameFinished" /\ UNCHANGED game]_vars

\* play_move was called on a finished game
C4_Witness == is_finished /\ result = "GameFinished"

\* every column has its tokens at the bottom: no empty cell below a token
Settled(b) ==
    \A c \in Cols, r \in Rows :
        r + 1 \in Rows /\ b[r][c] # 0 => b[r + 1][c] # 0

\* a successful play_move(column) fills the empty cell of the column with
\* the largest row index
LandsLowest ==
    \A column \in 0 .. MaxColumn :
        play_move(column) /\ result' = "Ok"
            => \E row \in Rows :
                   /\ board[row][column] = 0
                   /\ \A r \in Rows : r > row => board[r][column] # 0
                   /\ board'[row][column] # 0

\* C5: gravity: a successful move lands in the lowest empty row of its
\* column, and in every reachable state the tokens of each column form a
\* run from the bottom row up.
C5_Gravity == [](Settled(board)) /\ [][LandsLowest]_vars

\* a token has landed on top of another in a column that still has room
C5_Witness ==
    /\ result = "Ok"
    /\ \E c \in Cols :
           /\ board[BOARD_HEIGHT - 1][c] # 0
           /\ board[BOARD_HEIGHT - 2][c] # 0
           /\ board[0][c] = 0

\* C6: on an unfinished game play_move on an in-range column returns
\* ColumnFull, changing nothing, when the column has no empty cell, and
\* never returns ColumnFull when it has one.
C6_ColumnFull ==
    [][\A column \in Cols :
          ~is_finished /\ play_move(column)
              => IF HasRoom(board, column)
                 THEN result' # "ColumnFull"
                 ELSE result' = "ColumnFull" /\ UNCHANGED game]_vars

\* play_move was refused on a full column of an unfinished game
C6_Witness ==
    /\ ~is_finished
    /\ result = "ColumnFull"
    /\ \E c \in Cols : ~HasRoom(board, c)

\* C7: on an unfinished game every out-of-range column fails with
\* InvalidColumn, without a panic and without changing the game: a column
\* >= BOARD_WIDTH passed to play_move, and at main's prompt a number that
\* parses and whose zero-based column num - 1 is < 0 or >= BOARD_WIDTH.  A
\* negative number does not parse as usize: main reports the parse error
\* and leaves the game alone.
C7_InvalidColumn ==
    [][/\ \A column \in BOARD_WIDTH .. MaxColumn :
              ~is_finished /\ play_move(column)
                  => result' = "InvalidColumn" /\ UNCHANGED game
       /\ \A num \in 0 .. MaxInput :
              (num - 1 < 0 \/ num - 1 >= BOARD_WIDTH) /\ MainTurn(num)
                  => result' = "InvalidColumn" /\ UNCHANGED game
       /\ \A num \in (0 - MaxNegInput) .. -1 :
              MainTurn(num) => result' # "Panic" /\ UNCHANGED game]_vars

\* an out-of-range column was refused in the middle of a game
C7_Witness ==
    /\ ~is_finished
    /\ current_move > 0
    /\ result = "InvalidColumn"

\* C8: turn alternation: a successful play_move that does not finish the
\* game passes the turn to the other player, and a failed move (a
\* play_move error, or an input main rejects) leaves current_player alone.
C8_Alternation ==
    [][/\ \A column \in 0 .. MaxColumn :
              play_move(column)
                  => /\ result' = "Ok" /\ ~is_finished'
                         => current_player' = Other(current_player)
                     /\ result' # "Ok"
                         => current_player' = current_player
       /\ \A num \in (0 - MaxNegInput) .. MaxInput :
              MainTurn(num) /\ result' # "Ok"
                  => current_player' = current_player]_vars

\* player One's successful move has passed the turn to player Two
C8_Witness ==
    /\ ~is_finished
    /\ result = "Ok"
    /\ current_move % 2 = 1
    /\ current_player = Two

\* C9: a successful move that completes a four-in-a-line leaves
\* current_player as it was before the move.
C9_WinKeepsTurn ==
    [][\A column \in Cols :
          /\ play_move(column)
          /\ result' = "Ok"
          /\ \E p \in Players : HasLine(board', p)
          => current_player' = current_player]_vars

\* player One has just won and is still the current player
C9_Witness ==
    /\ is_finished
    /\ result = "Ok"
    /\ HasLine(board, One)
    /\ winner = One
    /\ current_player = One

\* the step is a successful play_move(column) that fills the last empty
\* cell and leaves no four-in-a-line
DrawMove(column) ==
    /\ play_move(column)
    /\ result' = "Ok"
    /\ Full(board')
    /\ NoLine(board')

SameGame == \A input \in {"R", "r"} : ~AfterGame(input)

\* C11: cells are written once: a successful play_move changes exactly one
\* cell, from empty to the token of the player who was to move, and leaves
\* every other cell alone; within a game a non-empty cell never changes.
C11_WriteOnce ==
    [][/\ \A column \in 0 .. MaxColumn :
              play_move(column) /\ result' = "Ok"
                  => \E row \in Rows :
                         /\ board[row][column] = 0
                         /\ board'[row][column] = current_player
                         /\ \A r \in Rows, c \in Cols :
                                <<r, c>> # <<row, column>>
                                    => board'[r][c] = board[r][c]
       /\ SameGame
              => \A r \in Rows, c \in Cols :
                     board[r][c] # 0 => board'[r][c] = board[r][c]]_vars

\* both players have written a cell, the one on top of the other
C11_Witness ==
    /\ result = "Ok"
    /\ \E c \in Cols :
           /\ board[BOARD_HEIGHT - 1][c] = One
           /\ board[BOARD_HEIGHT - 2][c] = Two

\* the number of non-empty cells
TokenCount(b) ==
    Cardinality({rc \in Rows \X Cols : b[rc[1]][rc[2]] # 0})

\* C12: current_move is the number of non-empty cells and lies in
\* 0 .. BOARD_HEIGHT * BOARD_WIDTH; a successful play_move adds exactly one
\* to it and a failed move leaves it alone.
C12_MoveCount ==
    /\ [](/\ current_move = TokenCount(board)
          /\ current_move \in 0 .. (BOARD_HEIGHT * BOARD_WIDTH))
    /\ [][/\ \A column \in 0 .. MaxColumn :
                 play_move(column)
                     => IF result' = "Ok"
                        THEN current_move' = current_move + 1
                        ELSE current_move' = current_move
          /\ \A num \in (0 - MaxNegInput) .. MaxInput :
                 MainTurn(num) /\ result' # "Ok"
                     => current_move' = current_move]_vars

\* a move was refused on a full column and the count is still the number
\* of tokens
C12_Witness ==
    /\ result = "ColumnFull"
    /\ current_move = TokenCount(board)
    /\ current_move >= BOARD_HEIGHT

\* the state of a new game
InitialGame ==
    /\ \A r \in Rows, c \in Cols : board[r][c] = 0
    /\ current_move = 0
    /\ current_player = One
    /\ is_finished = FALSE
    /\ winner = None

\* C13: a new game starts in the initial state, a restart at the prompt
\* after a finished game leaves exactly the initial state, and play_move
\* then accepts every column of the board.
C13_Restart ==
    /\ InitialGame
    /\ [][\A input \in {"R", "r"} : AfterGame(input) => InitialGame']_vars
    /\ [](result = "Restarted"
             => \A column \in Cols :
                    Outcome(is_finished, board, column) = "Ok")

\* a finished game has been replaced by a new one
C13_Witness == result = "Restarted" /\ InitialGame

\* C14: the is_finished check comes first: on a finished game play_move
\* returns GameFinished for every column, out of range or full or neither;
\* on an unfinished game an out-of-range column returns InvalidColumn.
C14_CheckOrder ==
    [][\A column \in 0 .. MaxColumn :
          play_move(column)
              => /\ is_finished => result' = "GameFinished"
                 /\ ~is_finished /\ column >= BOARD_WIDTH
                        => result' = "InvalidColumn"]_vars

\* play_move was refused on a finished game that has a full column
C14_Witness ==
    /\ is_finished
    /\ result = "GameFinished"
    /\ \E c \in Cols : ~HasRoom(board, c)

\* calculate_winner without its early return: the scan and the draw test at
\* every move count
ScanAlways(b, m, fin) ==
    IF \E k \in 0 .. (BOARD_HEIGHT * BOARD_WIDTH * Len(directions) - 1) :
           ScanHit(b, k)
    THEN LET first ==
                 CHOOSE k \in 0 .. (BOARD_HEIGHT * BOARD_WIDTH * Len(directions) - 1) :
                     /\ ScanHit(b, k)
                     /\ \A j \in 0 .. (k - 1) : ~ScanHit(b, j)
         IN  [ret |-> from_int(b[ScanRow(first)][ScanCol(first)]),
              is_finished |-> TRUE]
    ELSE [ret |-> None,
          is_finished |-> IF m >= BOARD_HEIGHT * BOARD_WIDTH THEN TRUE ELSE fin]

\* C15: the early return of calculate_winner changes no outcome: with fewer
\* than BOARD_WIDTH tokens on the board no player has four in a line, and
\* for every move play_move accepts calculate_winner returns what the scan
\* without the early return returns.
C15_SkipIsPure ==
    /\ current_move < BOARD_WIDTH => NoLine(board)
    /\ \A column \in Cols :
           Outcome(is_finished, board, column) = "Ok"
               => LET b == Place(board, FindRow(board, column), column,
                                 current_player)
                  IN  calculate_winner(b, current_move + 1, is_finished)
                          = ScanAlways(b, current_move + 1, is_finished)

\* player One has won with the seventh token, the first one that is scanned
C15_Witness ==
    /\ current_move = BOARD_WIDTH
    /\ is_finished
    /\ winner = One
    /\ HasLine(board, One)

\* C16: a win takes precedence over a draw: a successful move that fills
\* the last empty cell and completes a four-in-a-line for a player ends
\* the game with that player as winner.
C16_WinBeforeDraw ==
    [][\A column \in Cols :
          /\ play_move(column)
          /\ result' = "Ok"
          /\ Full(board')
          => \A p \in Players :
                 HasLine(board', p) => is_finished' /\ winner' = p]_vars

\* the 42nd token has completed a line and its owner has won
C16_Witness ==
    /\ Full(board)
    /\ current_move = BOARD_HEIGHT * BOARD_WIDTH
    /\ \E p \in Players : HasLine(board, p) /\ winner = p

\* C17: the winner is the player who made the last move: when winner is a
\* player it is current_player, the move that sets it writes that player's
\* token and was made by that player, and never do both players own a line.
C17_WinnerMoved ==
    /\ [](/\ winner # None => winner = current_player
          /\ ~(HasLine(board, One) /\ HasLine(board, Two)))
    /\ [][\A column \in Cols :
              play_move(column) /\ result' = "Ok" /\ winner' # None
                  => /\ winner' = current_player
                     /\ \E row \in Rows :
                            /\ board[row][column] = 0
                            /\ board'[row][column] = winner']_vars

\* player Two has just won, is the current player and player One has no line
C17_Witness ==
    /\ result = "Ok"
    /\ winner = Two
    /\ current_player = Two
    /\ ~HasLine(board, One)

\* the number of cells player p owns
Owned(b, p) ==
    Cardinality({rc \in Rows \X Cols : b[rc[1]][rc[2]] = p})

\* C18: token balance: player One owns as many cells as player Two or one
\* more; while the game is not finished current_player is One exactly when
\* the counts are equal (current_move even) and Two exactly when One has
\* one more (current_move odd).
C18_Balance ==
    LET lead == Owned(board, One) - Owned(board, Two)
    IN  /\ lead \in {0, 1}
        /\ ~is_finished
               => /\ current_player = One
                      <=> lead = 0 /\ current_move % 2 = 0
                  /\ current_player = Two
                      <=> lead = 1 /\ current_move % 2 = 1

\* in the middle of a game player One has one token more and player Two
\* is to move
C18_Witness ==
    /\ ~is_finished
    /\ current_move >= BOARD_WIDTH
    /\ current_player = Two
    /\ Owned(board, One) = Owned(board, Two) + 1

\* C19: a game never gets stuck and ends: while it is not finished some
\* column has an empty cell and play_move accepts it, and a game with
\* BOARD_HEIGHT * BOARD_WIDTH tokens placed is finished.
C19_Terminates ==
    /\ ~is_finished
           => \E column \in Cols :
                  /\ HasRoom(board, column)
                  /\ Outcome(is_finished, board, column) = "Ok"
    /\ current_move <= BOARD_HEIGHT * BOARD_WIDTH
    /\ current_move = BOARD_HEIGHT * BOARD_WIDTH => is_finished

\* one empty cell is left and the game is not finished
C19_Witness ==
    /\ ~is_finished
    /\ current_move = BOARD_HEIGHT * BOARD_WIDTH - 1
    /\ Cardinality({c \in Cols : HasRoom(board, c)}) = 1

\* C20: the no-player value is never played: current_player is One or Two,
\* and every cell is empty or holds the value of One or of Two.
C20_RealPlayers ==
    /\ current_player \in Players
    /\ \A r \in Rows, c \in Cols : board[r][c] \in {0} \cup Players

\* every cell of the board holds a player's token
C20_Witness ==
    /\ current_player \in Players
    /\ \A r \in Rows, c \in Cols : board[r][c] \in Players

=============================================================================
